---------------------------- MODULE Spec2Model ----------------------------
(***************************************************************************)
(* Natural atomic orbitals (pyscf/lo/nao.py): the AOSHELL configuration    *)
(* table and set_atom_conf, the core/valence/Rydberg classifier            *)
(* _core_val_ryd_list, the block loop of _prenao_sub, and the flow of the  *)
(* overlap matrix through nao and _nao_sub.                                *)
(*                                                                         *)
(* Python strings are sequences of one-character strings; Python indices   *)
(* are 0-based and are kept 0-based in the operators named after Python    *)
(* operations.  An operation that can raise returns a record               *)
(* [ok |-> BOOLEAN, val |-> ...]; ok = FALSE is the raised exception.      *)
(***************************************************************************)
EXTENDS Integers, Sequences, FiniteSets, TLC

\* ------------------------------------------------------------------------
\* Python string primitives
\* ------------------------------------------------------------------------

DigitChars == <<"0", "1", "2", "3", "4", "5", "6", "7", "8", "9">>

IsDigit(c) == \E i \in 1..10 : DigitChars[i] = c

\* int(c) for a one-character string c that is a decimal digit
DigitVal(c) == (CHOOSE i \in 1..10 : DigitChars[i] = c) - 1

\* '%d' % n for n >= 0
RECURSIVE DecStr(_)
DecStr(n) == IF n < 10 THEN <<DigitChars[n + 1]>>
             ELSE DecStr(n \div 10) \o <<DigitChars[(n % 10) + 1]>>

UpperChars == <<"A","B","C","D","E","F","G","H","I","J","K","L","M",
                "N","O","P","Q","R","S","T","U","V","W","X","Y","Z">>
LowerChars == <<"a","b","c","d","e","f","g","h","i","j","k","l","m",
                "n","o","p","q","r","s","t","u","v","w","x","y","z">>

LowerChar(c) == IF \E i \in 1..26 : UpperChars[i] = c
                THEN LowerChars[CHOOSE i \in 1..26 : UpperChars[i] = c]
                ELSE c

\* str.lower()
Lower(str) == [i \in 1..Len(str) |-> LowerChar(str[i])]

\* str.replace(c, '') for a one-character c
RemoveChar(str, c) == SelectSeq(str, LAMBDA x : x # c)

\* sub in str
Contains(str, sub) ==
    \E i \in 0..(Len(str) - Len(sub)) :
        \A j \in 1..Len(sub) : str[i + j] = sub[j]

\* str.find(c) for a one-character c: 0-based index of the first c, or -1
Find(str, c) ==
    IF \E i \in 1..Len(str) : str[i] = c
    THEN (CHOOSE i \in 1..Len(str) :
              /\ str[i] = c
              /\ \A j \in 1..(i - 1) : str[j] # c) - 1
    ELSE -1

\* str[i] with Python's negative indices; IndexError outside -len..len-1
PyIndex(str, i) ==
    LET n == Len(str)
        k == IF i < 0 THEN i + n ELSE i
    IN  IF k >= 0 /\ k < n THEN [ok |-> TRUE, val |-> str[k + 1]]
        ELSE [ok |-> FALSE, val |-> "IndexError"]

\* str.split(c)[0] for a one-character c: the text before the first c
SplitHead(str, c) ==
    LET loc == Find(str, c)
    IN  IF loc < 0 THEN str ELSE SubSeq(str, 1, loc)

\* str[::2]
EverySecond(str) == [i \in 1..((Len(str) + 1) \div 2) |-> str[2 * i - 1]]

\* [int(x) for x in str[::2]]; ValueError when a character is no digit
ShellCounts(str) ==
    LET picked == EverySecond(str)
    IN  IF \A i \in 1..Len(picked) : IsDigit(picked[i])
        THEN [ok |-> TRUE, val |-> [i \in 1..Len(picked) |-> DigitVal(picked[i])]]
        ELSE [ok |-> FALSE, val |-> <<>>]

\* int(desc.split(s)[0][-1]): IndexError on an empty head, ValueError on a
\* last character that is no digit
CountBefore(desc, s) ==
    LET last == PyIndex(SplitHead(desc, s), -1)
    IN  IF last.ok /\ IsDigit(last.val)
        THEN [ok |-> TRUE, val |-> DigitVal(last.val)]
        ELSE [ok |-> FALSE, val |-> 0]

ShellLetters == <<"s", "p", "d", "f">>

\* '%ds%dp%dd%df' % tuple(n); TypeError unless n has exactly four items
FormatConf(n) ==
    DecStr(n[1]) \o <<"s">> \o DecStr(n[2]) \o <<"p">> \o
    DecStr(n[3]) \o <<"d">> \o DecStr(n[4]) \o <<"f">>


\* ------------------------------------------------------------------------
\* AOSHELL: the configuration table, one [core, core+valence] pair of
\* strings per nuclear charge 0..118
\* ------------------------------------------------------------------------

\* the literal 'AsBpCdDf' of a table row
Conf(a, b, c, d) == FormatConf(<<a, b, c, d>>)

AOSHELL_ROWS == <<
    <<Conf(0,0,0,0), Conf(0,0,0,0)>>,   \*   0 GHOST
    <<Conf(0,0,0,0), Conf(1,0,0,0)>>,   \*   1 H
    <<Conf(0,0,0,0), Conf(1,0,0,0)>>,   \*   2 He
    <<Conf(1,0,0,0), Conf(2,0,0,0)>>,   \*   3 Li
    <<Conf(1,0,0,0), Conf(2,0,0,0)>>,   \*   4 Be
    <<Conf(1,0,0,0), Conf(2,1,0,0)>>,   \*   5 B
    <<Conf(1,0,0,0), Conf(2,1,0,0)>>,   \*   6 C
    <<Conf(1,0,0,0), Conf(2,1,0,0)>>,   \*   7 N
    <<Conf(1,0,0,0), Conf(2,1,0,0)>>,   \*   8 O
    <<Conf(1,0,0,0), Conf(2,1,0,0)>>,   \*   9 F
    <<Conf(1,0,0,0), Conf(2,1,0,0)>>,   \*  10 Ne
    <<Conf(2,1,0,0), Conf(3,1,0,0)>>,   \*  11 Na
    <<Conf(2,1,0,0), Conf(3,1,0,0)>>,   \*  12 Mg
    <<Conf(2,1,0,0), Conf(3,2,0,0)>>,   \*  13 Al
    <<Conf(2,1,0,0), Conf(3,2,0,0)>>,   \*  14 Si
    <<Conf(2,1,0,0), Conf(3,2,0,0)>>,   \*  15 P
    <<Conf(2,1,0,0), Conf(3,2,0,0)>>,   \*  16 S
    <<Conf(2,1,0,0), Conf(3,2,0,0)>>,   \*  17 Cl
    <<Conf(2,1,0,0), Conf(3,2,0,0)>>,   \*  18 Ar
    <<Conf(3,2,0,0), Conf(4,2,0,0)>>,   \*  19 K
    <<Conf(3,2,0,0), Conf(4,2,0,0)>>,   \*  20 Ca
    <<Conf(3,2,0,0), Conf(4,2,1,0)>>,   \*  21 Sc
    <<Conf(3,2,0,0), Conf(4,2,1,0)>>,   \*  22 Ti
    <<Conf(3,2,0,0), Conf(4,2,1,0)>>,   \*  23 V
    <<Conf(3,2,0,0), Conf(4,2,1,0)>>,   \*  24 Cr
    <<Conf(3,2,0,0), Conf(4,2,1,0)>>,   \*  25 Mn
    <<Conf(3,2,0,0), Conf(4,2,1,0)>>,   \*  26 Fe
    <<Conf(3,2,0,0), Conf(4,2,1,0)>>,   \*  27 Co
    <<Conf(3,2,0,0), Conf(4,2,1,0)>>,   \*  28 Ni
    <<Conf(3,2,0,0), Conf(4,2,1,0)>>,   \*  29 Cu
    <<Conf(3,2,0,0), Conf(4,2,1,0)>>,   \*  30 Zn
    <<Conf(3,2,1,0), Conf(4,3,1,0)>>,   \*  31 Ga
    <<Conf(3,2,1,0), Conf(4,3,1,0)>>,   \*  32 Ge
    <<Conf(3,2,1,0), Conf(4,3,1,0)>>,   \*  33 As
    <<Conf(3,2,1,0), Conf(4,3,1,0)>>,   \*  34 Se
    <<Conf(3,2,1,0), Conf(4,3,1,0)>>,   \*  35 Br
    <<Conf(3,2,1,0), Conf(4,3,1,0)>>,   \*  36 Kr
    <<Conf(4,3,1,0), Conf(5,3,1,0)>>,   \*  37 Rb
    <<Conf(4,3,1,0), Conf(5,3,1,0)>>,   \*  38 Sr
    <<Conf(4,3,1,0), Conf(5,3,2,0)>>,   \*  39 Y
    <<Conf(4,3,1,0), Conf(5,3,2,0)>>,   \*  40 Zr
    <<Conf(4,3,1,0), Conf(5,3,2,0)>>,   \*  41 Nb
    <<Conf(4,3,1,0), Conf(5,3,2,0)>>,   \*  42 Mo
    <<Conf(4,3,1,0), Conf(5,3,2,0)>>,   \*  43 Tc
    <<Conf(4,3,1,0), Conf(5,3,2,0)>>,   \*  44 Ru
    <<Conf(4,3,1,0), Conf(5,3,2,0)>>,   \*  45 Rh
    <<Conf(4,3,1,0), Conf(4,3,2,0)>>,   \*  46 Pd
    <<Conf(4,3,1,0), Conf(5,3,2,0)>>,   \*  47 Ag
    <<Conf(4,3,1,0), Conf(5,3,2,0)>>,   \*  48 Cd
    <<Conf(4,3,2,0), Conf(5,4,2,0)>>,   \*  49 In
    <<Conf(4,3,2,0), Conf(5,4,2,0)>>,   \*  50 Sn
    <<Conf(4,3,2,0), Conf(5,4,2,0)>>,   \*  51 Sb
    <<Conf(4,3,2,0), Conf(5,4,2,0)>>,   \*  52 Te
    <<Conf(4,3,2,0), Conf(5,4,2,0)>>,   \*  53 I
    <<Conf(4,3,2,0), Conf(5,4,2,0)>>,   \*  54 Xe
    <<Conf(5,4,2,0), Conf(6,4,2,0)>>,   \*  55 Cs
    <<Conf(5,4,2,0), Conf(6,4,2,0)>>,   \*  56 Ba
    <<Conf(5,4,2,0), Conf(6,4,3,0)>>,   \*  57 La
    <<Conf(5,4,2,0), Conf(6,4,3,1)>>,   \*  58 Ce
    <<Conf(5,4,2,0), Conf(6,4,2,1)>>,   \*  59 Pr
    <<Conf(5,4,2,0), Conf(6,4,2,1)>>,   \*  60 Nd
    <<Conf(5,4,2,0), Conf(6,4,2,1)>>,   \*  61 Pm
    <<Conf(5,4,2,0), Conf(6,4,2,1)>>,   \*  62 Sm
    <<Conf(5,4,2,0), Conf(6,4,2,1)>>,   \*  63 Eu
    <<Conf(5,4,2,0), Conf(6,4,3,1)>>,   \*  64 Gd
    <<Conf(5,4,2,0), Conf(6,4,3,1)>>,   \*  65 Tb
    <<Conf(5,4,2,0), Conf(6,4,2,1)>>,   \*  66 Dy
    <<Conf(5,4,2,0), Conf(6,4,2,1)>>,   \*  67 Ho
    <<Conf(5,4,2,0), Conf(6,4,2,1)>>,   \*  68 Er
    <<Conf(5,4,2,0), Conf(6,4,2,1)>>,   \*  69 Tm
    <<Conf(5,4,2,0), Conf(6,4,2,1)>>,   \*  70 Yb
    <<Conf(5,4,2,1), Conf(6,4,3,1)>>,   \*  71 Lu
    <<Conf(5,4,2,1), Conf(6,4,3,1)>>,   \*  72 Hf
    <<Conf(5,4,2,1), Conf(6,4,3,1)>>,   \*  73 Ta
    <<Conf(5,4,2,1), Conf(6,4,3,1)>>,   \*  74 W
    <<Conf(5,4,2,1), Conf(6,4,3,1)>>,   \*  75 Re
    <<Conf(5,4,2,1), Conf(6,4,3,1)>>,   \*  76 Os
    <<Conf(5,4,2,1), Conf(6,4,3,1)>>,   \*  77 Ir
    <<Conf(5,4,2,1), Conf(6,4,3,1)>>,   \*  78 Pt
    <<Conf(5,4,2,1), Conf(6,4,3,1)>>,   \*  79 Au
    <<Conf(5,4,2,1), Conf(6,4,3,1)>>,   \*  80 Hg
    <<Conf(5,4,3,1), Conf(6,5,3,1)>>,   \*  81 Tl
    <<Conf(5,4,3,1), Conf(6,5,3,1)>>,   \*  82 Pb
    <<Conf(5,4,3,1), Conf(6,5,3,1)>>,   \*  83 Bi
    <<Conf(5,4,3,1), Conf(6,5,3,1)>>,   \*  84 Po
    <<Conf(5,4,3,1), Conf(6,5,3,1)>>,   \*  85 At
    <<Conf(5,4,3,1), Conf(6,5,3,1)>>,   \*  86 Rn
    <<Conf(6,5,3,1), Conf(7,5,3,1)>>,   \*  87 Fr
    <<Conf(6,5,3,1), Conf(7,5,3,1)>>,   \*  88 Ra
    <<Conf(6,5,3,1), Conf(7,5,4,1)>>,   \*  89 Ac
    <<Conf(6,5,3,1), Conf(7,5,4,1)>>,   \*  90 Th
    <<Conf(6,5,3,1), Conf(7,5,4,2)>>,   \*  91 Pa
    <<Conf(6,5,3,1), Conf(7,5,4,2)>>,   \*  92 U
    <<Conf(6,5,3,1), Conf(7,5,4,2)>>,   \*  93 Np
    <<Conf(6,5,3,1), Conf(7,5,3,2)>>,   \*  94 Pu
    <<Conf(6,5,3,1), Conf(7,5,3,2)>>,   \*  95 Am
    <<Conf(6,5,3,1), Conf(7,5,4,2)>>,   \*  96 Cm
    <<Conf(6,5,3,1), Conf(7,5,4,2)>>,   \*  97 Bk
    <<Conf(6,5,3,1), Conf(7,5,3,2)>>,   \*  98 Cf
    <<Conf(6,5,3,1), Conf(7,5,3,2)>>,   \*  99 Es
    <<Conf(6,5,3,1), Conf(7,5,3,2)>>,   \* 100 Fm
    <<Conf(6,5,3,1), Conf(7,5,3,2)>>,   \* 101 Md
    <<Conf(6,5,3,1), Conf(7,5,3,2)>>,   \* 102 No
    <<Conf(6,5,3,2), Conf(7,5,4,2)>>,   \* 103 Lr
    <<Conf(6,5,3,2), Conf(7,5,4,2)>>,   \* 104 Rf
    <<Conf(6,5,3,2), Conf(7,5,4,2)>>,   \* 105 Db
    <<Conf(6,5,3,2), Conf(7,5,4,2)>>,   \* 106 Sg
    <<Conf(6,5,3,2), Conf(7,5,4,2)>>,   \* 107 Bh
    <<Conf(6,5,3,2), Conf(7,5,4,2)>>,   \* 108 Hs
    <<Conf(6,5,3,2), Conf(7,5,4,2)>>,   \* 109 Mt
    <<Conf(6,5,3,2), Conf(7,5,4,2)>>,   \* 110 E110
    <<Conf(6,5,3,2), Conf(7,5,4,2)>>,   \* 111 E111
    <<Conf(6,5,3,2), Conf(7,5,4,2)>>,   \* 112 E112
    <<Conf(6,5,4,2), Conf(7,6,4,2)>>,   \* 113 E113
    <<Conf(6,5,4,2), Conf(7,6,4,2)>>,   \* 114 E114
    <<Conf(6,5,4,2), Conf(7,6,4,2)>>,   \* 115 E115
    <<Conf(6,5,4,2), Conf(7,6,4,2)>>,   \* 116 E116
    <<Conf(6,3,4,2), Conf(7,6,4,2)>>,   \* 117 E117
    <<Conf(6,3,4,2), Conf(7,6,4,2)>>    \* 118 E118
>>

Charges == 0..(Len(AOSHELL_ROWS) - 1)

\* the module-level list as it stands after import
AOSHELL_DEFAULT == [z \in Charges |-> AOSHELL_ROWS[z + 1]]

\* ------------------------------------------------------------------------
\* set_atom_conf
\* ------------------------------------------------------------------------

\* A description is a str (isstr, text in v) or a 2-tuple of str (c, v).
StrDesc(text) == [isstr |-> TRUE, c |-> <<>>, v |-> text]
PairDesc(core, val) == [isstr |-> FALSE, c |-> core, v |-> val]

\* to_conf with the "polarize" branch reading a wrong column of the row
to_conf_core_row(desc, row) ==
    LET d == Lower(RemoveChar(RemoveChar(RemoveChar(desc, " "), "-"), "_"))
    IN  IF Contains(d, <<"d","o","u","b","l","e","p">>)
            THEN [ok |-> TRUE, val |-> <<"2", "p">>]
        ELSE IF Contains(d, <<"d","o","u","b","l","e","d">>)
            THEN [ok |-> TRUE, val |-> <<"2", "d">>]
        ELSE IF Contains(d, <<"d","o","u","b","l","e","f">>)
            THEN [ok |-> TRUE, val |-> <<"2", "f">>]
        ELSE IF Contains(d, <<"p","o","l","a","r","i","z","e">>)
            THEN LET loc == Find(row[1], "0")
                     ch  == PyIndex(row[1], loc + 1)
                 IN  IF ch.ok THEN [ok |-> TRUE, val |-> <<"1", ch.val>>]
                     ELSE [ok |-> FALSE, val |-> <<>>]
        ELSE [ok |-> TRUE, val |-> d]

\* to_conf(desc) inside set_atom_conf; row is AOSHELL[charge]
to_conf(desc, row) ==
    LET d == Lower(RemoveChar(RemoveChar(RemoveChar(desc, " "), "-"), "_"))
    IN  IF Contains(d, <<"d","o","u","b","l","e","p">>)
            THEN [ok |-> TRUE, val |-> <<"2", "p">>]
        ELSE IF Contains(d, <<"d","o","u","b","l","e","d">>)
            THEN [ok |-> TRUE, val |-> <<"2", "d">>]
        ELSE IF Contains(d, <<"d","o","u","b","l","e","f">>)
            THEN [ok |-> TRUE, val |-> <<"2", "f">>]
        ELSE IF Contains(d, <<"p","o","l","a","r","i","z","e">>)
            THEN LET loc == Find(row[2], "0")
                     ch  == PyIndex(row[2], loc + 1)
                 IN  IF ch.ok THEN [ok |-> TRUE, val |-> <<"1", ch.val>>]
                     ELSE [ok |-> FALSE, val |-> <<>>]
        ELSE [ok |-> TRUE, val |-> d]

\* the valence update with the core count left out of the sum
NewValenceCount_abs(ncore_i, ncv_i, v_desc, s) ==
    IF Contains(v_desc, <<s>>)
    THEN LET n == CountBefore(v_desc, s)
         IN  [ok |-> n.ok, val |-> n.val]
    ELSE [ok |-> TRUE, val |-> ncv_i]

\* "if s in c_desc: ncore[i] = int(c_desc.split(s)[0][-1])"
NewCoreCount(ncore_i, c_desc, s) ==
    IF Contains(c_desc, <<s>>) THEN CountBefore(c_desc, s)
    ELSE [ok |-> TRUE, val |-> ncore_i]

\* "if s in v_desc: ncv[i] = ncore[i] + int(v_desc.split(s)[0][-1])",
\* ncore_i being the core count as just updated
NewValenceCount(ncore_i, ncv_i, v_desc, s) ==
    IF Contains(v_desc, <<s>>)
    THEN LET n == CountBefore(v_desc, s)
         IN  [ok |-> n.ok, val |-> ncore_i + n.val]
    ELSE [ok |-> TRUE, val |-> ncv_i]

\* The body of set_atom_conf on the row AOSHELL[charge]: the row it writes,
\* or ok = FALSE when an exception is raised (always before the write).
set_atom_conf(row, description) ==
    LET cd == IF description.isstr THEN [ok |-> TRUE, val |-> row[1]]
              ELSE to_conf(description.c, row)
        vd == to_conf(description.v, row)
        ncore == ShellCounts(row[1])
        ncv   == ShellCounts(row[2])
    IN  IF ~(cd.ok /\ vd.ok /\ ncore.ok /\ ncv.ok)
            THEN [ok |-> FALSE, val |-> row]
        ELSE IF Len(ncore.val) # 4 \/ Len(ncv.val) # 4
            THEN [ok |-> FALSE, val |-> row]
        ELSE
            LET nc == [i \in 1..4 |->
                          NewCoreCount(ncore.val[i], cd.val, ShellLetters[i])]
                nv == [i \in 1..4 |->
                          NewValenceCount(nc[i].val, ncv.val[i], vd.val,
                                          ShellLetters[i])]
            IN  IF \A i \in 1..4 : nc[i].ok /\ nv[i].ok
                THEN [ok |-> TRUE,
                      val |-> <<FormatConf([i \in 1..4 |-> nc[i].val]),
                                FormatConf([i \in 1..4 |-> nv[i].val])>>]
                ELSE [ok |-> FALSE, val |-> row]


\* ------------------------------------------------------------------------
\* The molecule (basis metadata) and _core_val_ryd_list
\* ------------------------------------------------------------------------
\* A molecule is [bas, cart, atoms]: bas is the sequence of shells
\* [atom, ang, nctr] (atom 0-based: mol.bas_atom, mol.bas_angular,
\* mol.bas_nctr), cart is mol.cart, atoms the sequence of [nuc, ecpcore]
\* (mole._charge(mol.atom_symbol(ia)) and
\* core_configuration(mol.atom_nelec_core(ia)), the counts for l = 0..3).

\* number of columns of the count array, numpy.zeros((mol.natm, 9))
CountColumns == 9

\* "deg": (l+1)(l+2)//2 Cartesian, 2l+1 spherical
Degen(cart, l) == IF cart THEN ((l + 1) * (l + 2)) \div 2 ELSE 2 * l + 1

\* range(k, k+deg) with one index too many
AORange_wide(k, deg) == [i \in 1..(deg + 1) |-> k + i - 1]

\* range(k, k+deg) as a list
AORange(k, deg) == [i \in 1..deg |-> k + i - 1]

\* the label with the running count of the atom left out
ShellLabel_nocount(l, n, ecpcore, cnt, coreshell, cvshell) ==
    IF l > 3 THEN "rydbg"
    ELSE IF ecpcore[l + 1] + n < coreshell[l + 1] THEN "core"
    ELSE IF ecpcore[l + 1] + n < cvshell[l + 1] THEN "val"
    ELSE "rydbg"

\* the if/elif chain of the loop over n: which list contraction n goes to;
\* cnt is count[ia,l] (0 when l > 3, where it is not read)
ShellLabel(l, n, ecpcore, cnt, coreshell, cvshell) ==
    IF l > 3 THEN "rydbg"
    ELSE IF ecpcore[l + 1] + cnt + n < coreshell[l + 1] THEN "core"
    ELSE IF ecpcore[l + 1] + cnt + n < cvshell[l + 1] THEN "val"
    ELSE "rydbg"

\* the loop "for n in range(nc)" from contraction n on, for one shell
RECURSIVE Contractions(_, _, _, _, _, _, _, _)
Contractions(acc, n, nc, l, deg, ecpcore, coreshell, cvshell) ==
    IF n >= nc THEN acc
    ELSE
        LET cnt == IF l < CountColumns THEN acc.count[l + 1] ELSE 0
            lab == ShellLabel(l, n, ecpcore, cnt, coreshell, cvshell)
            r   == AORange(acc.k, deg)
        IN  Contractions(
                [acc EXCEPT
                    !.core_lst  = IF lab = "core"  THEN @ \o r ELSE @,
                    !.val_lst   = IF lab = "val"   THEN @ \o r ELSE @,
                    !.rydbg_lst = IF lab = "rydbg" THEN @ \o r ELSE @,
                    !.k = @ + deg],
                n + 1, nc, l, deg, ecpcore, coreshell, cvshell)

\* the loop "for ib in range(mol.nbas)" from shell ib (1-based) on; counts is
\* the count array, one row of CountColumns per atom
RECURSIVE Shells(_, _, _, _, _)
Shells(m, table, ib, counts, acc) ==
    IF ib > Len(m.bas) THEN [acc EXCEPT !.state = "returned"]
    ELSE
        LET sh  == m.bas[ib]
            at  == m.atoms[sh.atom + 1]
            l   == sh.ang
            coreshell == ShellCounts(table[at.nuc][1])
            cvshell   == ShellCounts(table[at.nuc][2])
            raised == [state |-> "raised", core_lst |-> <<>>, val_lst |-> <<>>,
                       rydbg_lst |-> <<>>, k |-> 0]
        IN  IF ~(coreshell.ok /\ cvshell.ok) THEN raised
            ELSE IF sh.nctr > 0 /\ l <= 3
                    /\ (Len(coreshell.val) <= l \/ Len(cvshell.val) <= l)
                THEN raised
            ELSE IF l >= CountColumns THEN raised
            ELSE
                LET a == Contractions(
                            [core_lst |-> acc.core_lst, val_lst |-> acc.val_lst,
                             rydbg_lst |-> acc.rydbg_lst, k |-> acc.k,
                             count |-> counts[sh.atom + 1]],
                            0, sh.nctr, l, Degen(m.cart, l), at.ecpcore,
                            coreshell.val, cvshell.val)
                IN  Shells(m, table, ib + 1,
                           [counts EXCEPT ![sh.atom + 1][l + 1] = @ + sh.nctr],
                           [state |-> "running", core_lst |-> a.core_lst,
                            val_lst |-> a.val_lst, rydbg_lst |-> a.rydbg_lst,
                            k |-> a.k])

\* _core_val_ryd_list(mol) reading the table: state "returned" with the
\* three lists, or "raised"
core_val_ryd_list(m, table) ==
    Shells(m, table, 1,
           [ia \in 1..Len(m.atoms) |-> [c \in 1..CountColumns |-> 0]],
           [state |-> "running", core_lst |-> <<>>, val_lst |-> <<>>,
            rydbg_lst |-> <<>>, k |-> 0])

\* ------------------------------------------------------------------------
\* _prenao_sub
\* ------------------------------------------------------------------------

\* mol.ao_loc_nr()[ib] for the 0-based shell ib: the first basis function of
\* the shell, shells laid out in order, nctr * degen functions each
RECURSIVE AoLoc(_, _)
AoLoc(m, ib) ==
    IF ib = 0 THEN 0
    ELSE AoLoc(m, ib - 1) + m.bas[ib].nctr * Degen(m.cart, m.bas[ib].ang)

\* mol.nao_nr(), ao_loc[-1]
NumAO(m) == AoLoc(m, Len(m.bas))

\* the shells (1-based) of atom ia: b0..b1 of mol.aoslice_by_atom
AtomShells(m, ia) == {ib \in 1..Len(m.bas) : m.bas[ib].atom = ia}

\* bas_ang[b0:b1].max()
LMax(m, ia) ==
    CHOOSE l \in {m.bas[ib].ang : ib \in AtomShells(m, ia)} :
        \A ib \in AtomShells(m, ia) : m.bas[ib].ang <= l

\* the list "idx" before numpy.hstack, flattened: the basis functions of the
\* shells from ib (1-based) on that belong to atom ia and have ang = l
RECURSIVE BlockIdx(_, _, _, _)
BlockIdx(m, ia, l, ib) ==
    IF ib > Len(m.bas) THEN <<>>
    ELSE (IF m.bas[ib].atom = ia /\ m.bas[ib].ang = l
          THEN [i \in 1..(AoLoc(m, ib) - AoLoc(m, ib - 1)) |->
                    AoLoc(m, ib - 1) + i - 1]
          ELSE <<>>) \o BlockIdx(m, ia, l, ib + 1)

\* e and the columns of v left in the order scipy.linalg.eigh returns them
Reversed_kept(seq) == seq

\* seq[::-1]
Reversed(seq) == [i \in 1..Len(seq) |-> seq[Len(seq) + 1 - i]]

\* what scipy.linalg.eigh can return as e for an nd x nd block: the
\* eigenvalues in ascending order, here every ascending sequence of nd
\* values in 0..maxocc (cut[j] is how many of them are below j)
EighValues(nd, maxocc) ==
    { [i \in 1..nd |-> Cardinality({j \in 1..maxocc : cut[j] < i})] :
          cut \in [1..maxocc -> 0..nd] }

\* row i of v as eigh returns it for the eigenvalues e: entry j is row i of
\* the eigenvector of e[j], kept as the record of where it came from
EigVectorRow(e, i) ==
    [j \in 1..Len(e) |-> [row |-> i, col |-> j, eig |-> e[j]]]

\* _prenao_sub raises when some atom lacks an l below its highest (the block
\* loop reaches numpy.hstack([]))
prenao_sub_raises(m) ==
    \E ia \in 0..(Len(m.atoms) - 1) :
        \E l \in 0..LMax(m, ia) : BlockIdx(m, ia, l, 1) = <<>>

\* ------------------------------------------------------------------------
\* nao and _nao_sub: which overlap matrix each step computes with
\* ------------------------------------------------------------------------
\* Matrices are named, not computed: "int1e_ovlp" is
\* mol.intor_symmetric('int1e_ovlp'), "caller_s" a matrix of the caller's
\* that differs from it, "eye" the identity of the restoration pass.

\* "if s is None: s = mol.intor_symmetric('int1e_ovlp')"
OverlapOrDefault(s) == IF s = "None" THEN "int1e_ovlp" ELSE s

\* the overlap-dependent steps of _nao_sub(mol, pre_occ, pre_nao, s) for the
\* lists lists = [core_lst, val_lst, rydbg_lst], each with the overlap it
\* computes with
nao_sub_uses(s, lists) ==
    LET ovlp == OverlapOrDefault(s)
    IN  (IF lists.core_lst # <<>>
         THEN {[step |-> "gram_core", ovlp |-> ovlp],
               [step |-> "deflate_val", ovlp |-> ovlp]}
         ELSE {})
        \cup (IF lists.val_lst # <<>>
              THEN {[step |-> "gram_val", ovlp |-> ovlp]} ELSE {})
        \cup (IF lists.rydbg_lst # <<>>
              THEN {[step |-> "deflate_rydbg", ovlp |-> ovlp],
                    [step |-> "gram_rydbg", ovlp |-> ovlp]}
              ELSE {})
        \cup {[step |-> "snorm", ovlp |-> ovlp]}

\* ------------------------------------------------------------------------
\* State
\* ------------------------------------------------------------------------

VARIABLES
    AOSHELL,    \* the module-level table, kept as the rows set_atom_conf
                \* has assigned, charge -> <<core, core+valence>>; every
                \* other row is the one of AOSHELL_DEFAULT
    ncalls,     \* number of set_atom_conf calls made so far
    last        \* the most recent set_atom_conf call: its arguments, the row
                \* it found, whether it raised, and the 'Update ... conf'
                \* message it wrote to stderr

VARIABLES
    mol,        \* the molecule handed to _core_val_ryd_list and _prenao_sub
    cvr         \* the outcome of _core_val_ryd_list(mol)

VARIABLES
    pre_pc,     \* _prenao_sub: "idle", "loop", "returned" or "raised"
    pre_ia,     \* _prenao_sub: the atom of the block the loop is at
    pre_l,      \* _prenao_sub: the angular momentum of that block
    occ,        \* _prenao_sub: occ, basis function -> occupation
    cao         \* _prenao_sub: the entries of cao written so far,
                \* <<i0, j0>> -> entry of the eigenvector matrix

VARIABLES
    nao_pc,     \* nao: "idle", the line it is at, "returned" or "raised"
    nao_args,   \* nao: the arguments s, restore and the kind of mf
    uses        \* nao: which overlap matrix each step so far has computed with

confVars == <<AOSHELL, ncalls, last>>

preVars == <<pre_pc, pre_ia, pre_l, occ, cao>>

naoVars == <<nao_pc, nao_args, uses>>

vars == <<AOSHELL, ncalls, last, mol, cvr, pre_pc, pre_ia, pre_l, occ, cao,
          nao_pc, nao_args, uses>>

\* ------------------------------------------------------------------------
\* Bounds and inputs
\* ------------------------------------------------------------------------

\* set_atom_conf calls per run
MaxCalls == 3

\* shells of a molecule (mol.nbas), atoms (mol.natm) and contracted
\* functions of a shell (nctr)
MaxShells == 2
MaxAtoms == 2
MaxNctr == 2

\* the angular momenta of the shells: s, p, d, f, and g for every l > 3
Angulars == 0..4

\* the eigenvalues scipy.linalg.eigh returns are drawn from 0..MaxOcc
MaxOcc == 1

T_1s1d     == <<"1","s","1","d">>
T_double_p == <<"d","o","u","b","l","e"," ","p">>
T_double_d == <<"d","o","u","b","l","e"," ","d">>
T_double_f == <<"d","o","u","b","l","e"," ","f">>
T_Double_D == <<"D","o","u","b","l","e","-","D">>
T_polarize == <<"p","o","l","a","r","i","z","e">>
T_empty    == <<>>
T_2g       == <<"2","g">>
T_s        == <<"s">>
T_xs       == <<"x","s">>
T_7s       == <<"7","s">>
T_3s2p     == <<"3","s","2","p">>
T_1d       == <<"1","d">>

\* the descriptions passed to set_atom_conf
Descriptions ==
    { StrDesc(T_1s1d), StrDesc(T_double_p), StrDesc(T_double_d),
      StrDesc(T_double_f), StrDesc(T_Double_D), StrDesc(T_polarize),
      StrDesc(T_empty), StrDesc(T_2g), StrDesc(T_s), StrDesc(T_xs),
      StrDesc(T_7s), PairDesc(T_3s2p, T_1d) }

\* the elements passed to set_atom_conf: the first element of every distinct
\* row of the default table, and Fe, the element of the module's own calls
Elements == {z \in Charges :
                \A y \in Charges : y < z => AOSHELL_ROWS[y + 1] # AOSHELL_ROWS[z + 1]}
            \cup {26}

NoCall == [element |-> -1, description |-> StrDesc(<<>>),
           before |-> <<<<>>, <<>>>>, raised |-> FALSE, update |-> <<>>]

\* ------------------------------------------------------------------------
\* Specification of the configuration table
\* ------------------------------------------------------------------------

\* AOSHELL[z]
Row(z) == IF z \in DOMAIN AOSHELL THEN AOSHELL[z] ELSE AOSHELL_DEFAULT[z]

\* AOSHELL as the classifier reads it
Table == [z \in Charges |-> Row(z)]

\* no row assigned since import
Imported == <<>>

NoMol == [bas |-> <<>>, cart |-> FALSE, atoms |-> <<>>]

NotCalled == [state |-> "idle", core_lst |-> <<>>, val_lst |-> <<>>,
              rydbg_lst |-> <<>>, k |-> 0]

\* _prenao_sub not called
PreIdle ==
    /\ pre_pc = "idle"
    /\ pre_ia = 0
    /\ pre_l = 0
    /\ occ = <<>>
    /\ cao = <<>>

NoArgs == [s |-> "None", restore |-> FALSE, mf |-> "RHF"]

\* nao not called
NaoIdle ==
    /\ nao_pc = "idle"
    /\ nao_args = NoArgs
    /\ uses = {}

Init ==
    /\ AOSHELL = Imported
    /\ ncalls = 0
    /\ last = NoCall
    /\ mol = NoMol
    /\ cvr = NotCalled
    /\ PreIdle
    /\ NaoIdle

\* set_atom_conf(element, description); element is given as its charge
\* (mole._charge).  A call reads and writes the row AOSHELL[charge] only, and
\* a run addresses one element.
SetAtomConf(element, description) ==
    /\ ncalls < MaxCalls
    /\ last.element \in {-1, element}
    /\ LET r == set_atom_conf(Row(element), description)
       IN  /\ AOSHELL' = IF r.ok THEN (element :> r.val) @@ AOSHELL
                         ELSE AOSHELL
           /\ last' = [element |-> element, description |-> description,
                       before |-> Row(element), raised |-> ~r.ok,
                       update |-> IF r.ok THEN r.val ELSE <<>>]
    /\ ncalls' = ncalls + 1
    /\ UNCHANGED <<mol, cvr>>
    /\ UNCHANGED preVars
    /\ UNCHANGED naoVars

Next == \E element \in Elements, description \in Descriptions :
            SetAtomConf(element, description)

Spec == Init /\ [][Next]_vars


\* ------------------------------------------------------------------------
\* Specification of the classifier: _core_val_ryd_list on a molecule
\* ------------------------------------------------------------------------

\* the atoms of the molecules: O, Fe with a 10-electron ECP core
\* (core_configuration(10) = 2s1p0d0f), Rb
AtomKinds == { [nuc |-> 8,  ecpcore |-> <<0, 0, 0, 0>>],
               [nuc |-> 26, ecpcore |-> <<2, 1, 0, 0>>],
               [nuc |-> 37, ecpcore |-> <<0, 0, 0, 0>>] }

ShellSet == [atom : 0..(MaxAtoms - 1), ang : Angulars, nctr : 1..MaxNctr]

\* shells come grouped by atom, atoms numbered from 0 in order
Grouped(b) ==
    /\ b[1].atom = 0
    /\ \A i \in 1..(Len(b) - 1) : b[i + 1].atom \in {b[i].atom, b[i].atom + 1}

\* mol is one of the molecules within the bounds, its shells taken from
\* shells and its atoms from kinds
InitMol(shells, kinds) ==
    \E n \in 1..MaxShells :
        \E b \in [1..n -> shells] :
            /\ Grouped(b)
            /\ \E c \in BOOLEAN, a \in [1..(b[n].atom + 1) -> kinds] :
                   mol = [bas |-> b, cart |-> c, atoms |-> a]

\* the table after set_atom_conf('Fe', 'double d') and set_atom_conf('Rb', '7s')
AOSHELL_OVERRIDDEN ==
    (26 :> set_atom_conf(AOSHELL_DEFAULT[26], StrDesc(T_double_d)).val)
    @@ (37 :> set_atom_conf(AOSHELL_DEFAULT[37], StrDesc(T_7s)).val)

InitCVR ==
    /\ AOSHELL = AOSHELL_OVERRIDDEN
    /\ ncalls = 0
    /\ last = NoCall
    /\ InitMol(ShellSet, AtomKinds)
    /\ cvr = NotCalled
    /\ PreIdle
    /\ NaoIdle

CoreValRydList ==
    /\ cvr.state = "idle"
    /\ cvr' = core_val_ryd_list(mol, Table)
    /\ UNCHANGED <<AOSHELL, ncalls, last, mol>>
    /\ UNCHANGED preVars
    /\ UNCHANGED naoVars

NextCVR == CoreValRydList

SpecCVR == InitCVR /\ [][NextCVR]_vars

\* ------------------------------------------------------------------------
\* Specification of _prenao_sub: one step per (atom, l) block of the loops
\* ------------------------------------------------------------------------

\* the shells of the molecules handed to _prenao_sub: s, p and d
PreShellSet == [atom : 0..(MaxAtoms - 1), ang : 0..2, nctr : 1..MaxNctr]

InitPre ==
    /\ AOSHELL = Imported
    /\ ncalls = 0
    /\ last = NoCall
    /\ InitMol(PreShellSet, {[nuc |-> 8, ecpcore |-> <<0, 0, 0, 0>>]})
    /\ cvr = NotCalled
    /\ PreIdle
    /\ NaoIdle

\* entry of _prenao_sub up to the loops: occ and cao are all zero
PrenaoEnter ==
    /\ pre_pc = "idle"
    /\ pre_pc' = "loop"
    /\ pre_ia' = 0
    /\ pre_l' = 0
    /\ occ' = [i \in 0..(NumAO(mol) - 1) |-> 0]
    /\ cao' = <<>>
    /\ UNCHANGED <<AOSHELL, ncalls, last, mol, cvr>>
    /\ UNCHANGED naoVars

\* the loops move on to the next (atom, l), or the function returns
Advance ==
    IF pre_l < LMax(mol, pre_ia)
        THEN pre_pc' = "loop" /\ pre_ia' = pre_ia /\ pre_l' = pre_l + 1
    ELSE IF pre_ia + 1 < Len(mol.atoms)
        THEN pre_pc' = "loop" /\ pre_ia' = pre_ia + 1 /\ pre_l' = 0
    ELSE pre_pc' = "returned" /\ pre_ia' = pre_ia /\ pre_l' = pre_l

\* one pass of the body of "for l in range(l_max+1)" for a block that has
\* shells; e is what scipy.linalg.eigh returns for the block
PrenaoBlock ==
    /\ pre_pc = "loop"
    /\ \E idx \in {BlockIdx(mol, pre_ia, pre_l, 1)} :
         LET degen == Degen(mol.cart, pre_l)
             nd    == Len(idx) \div degen
         IN  /\ Len(idx) >= 1
             /\ \E eigh \in EighValues(nd, MaxOcc) :
                  \* row[x] is the (0-based) row of idx.reshape(-1, degen)
                  \* that holds basis function x, comp[x] its column
                  \E row \in {[x \in {idx[q] : q \in 1..Len(idx)} |->
                                 ((CHOOSE q \in 1..Len(idx) : idx[q] = x) - 1)
                                     \div degen]},
                     comp \in {[x \in {idx[q] : q \in 1..Len(idx)} |->
                                 ((CHOOSE q \in 1..Len(idx) : idx[q] = x) - 1)
                                     % degen]},
                     e \in {Reversed(eigh)},
                     v \in {[i \in 1..nd |-> Reversed(EigVectorRow(eigh, i))]} :
                       \* "for k: ilst = idx[:,k]; occ[ilst] = e;
                       \*  for i,i0 in enumerate(ilst): cao[i0,ilst] = v[i]"
                       /\ occ' = [x \in DOMAIN occ |->
                                    IF x \in DOMAIN row THEN e[row[x] + 1]
                                    ELSE occ[x]]
                       /\ cao' = [w \in (DOMAIN cao) \cup
                                        {<<x, y>> \in (DOMAIN row) \X (DOMAIN row) :
                                             comp[x] = comp[y]} |->
                                    IF w[1] \in DOMAIN row
                                    THEN v[row[w[1]] + 1][row[w[2]] + 1]
                                    ELSE cao[w]]
    /\ Advance
    /\ UNCHANGED <<AOSHELL, ncalls, last, mol, cvr>>
    /\ UNCHANGED naoVars

\* the same pass for an l the atom has no shell of: numpy.hstack([]) raises
\* ValueError before "if idx.size < 1: continue" is reached
PrenaoEmptyBlock ==
    /\ pre_pc = "loop"
    /\ BlockIdx(mol, pre_ia, pre_l, 1) = <<>>
    /\ pre_pc' = "raised"
    /\ UNCHANGED <<pre_ia, pre_l, occ, cao>>
    /\ UNCHANGED <<AOSHELL, ncalls, last, mol, cvr>>
    /\ UNCHANGED naoVars

NextPre == PrenaoEnter \/ PrenaoBlock \/ PrenaoEmptyBlock

SpecPre == InitPre /\ [][NextPre]_vars

\* ------------------------------------------------------------------------
\* Specification of nao(mol, mf, s, restore): one step per call it makes
\* ------------------------------------------------------------------------

InitNao ==
    /\ AOSHELL = Imported
    /\ ncalls = 0
    /\ last = NoCall
    /\ InitMol(PreShellSet, {[nuc |-> 8, ecpcore |-> <<0, 0, 0, 0>>]})
    /\ cvr = NotCalled
    /\ PreIdle
    /\ nao_pc = "idle"
    /\ nao_args \in [s : {"None", "int1e_ovlp", "caller_s"},
                     restore : BOOLEAN,
                     mf : {"RHF", "UHF", "ROHF"}]
    /\ uses = {}

\* the overlap nao works with after "if s is None"
NaoS == OverlapOrDefault(nao_args.s)

\* lines 159-166: s, dm and p = s.dm.s
NaoDensity ==
    /\ nao_pc = "idle"
    /\ nao_pc' = "prenao"
    /\ uses' = uses \cup {[step |-> "p", ovlp |-> NaoS]}
    /\ UNCHANGED <<nao_args, mol, cvr>>
    /\ UNCHANGED confVars
    /\ UNCHANGED preVars

\* line 167: _prenao_sub(mol, p, s)
NaoPrenao ==
    /\ nao_pc = "prenao"
    /\ nao_pc' = IF prenao_sub_raises(mol) THEN "raised" ELSE "nao_sub"
    /\ uses' = uses \cup {[step |-> "prenao", ovlp |-> NaoS]}
    /\ UNCHANGED <<nao_args, mol, cvr>>
    /\ UNCHANGED confVars
    /\ UNCHANGED preVars

\* line 168: _nao_sub(mol, pre_occ, pre_nao), called without s
NaoSub ==
    /\ nao_pc = "nao_sub"
    /\ cvr' = core_val_ryd_list(mol, Table)
    /\ IF cvr'.state = "raised"
       THEN nao_pc' = "raised" /\ uses' = uses
       ELSE /\ nao_pc' = IF nao_args.restore THEN "restore" ELSE "returned"
            /\ uses' = uses \cup nao_sub_uses("None", cvr')
    /\ UNCHANGED <<nao_args, mol>>
    /\ UNCHANGED confVars
    /\ UNCHANGED preVars

\* lines 169-174: the restoration pass, _prenao_sub(mol, p_nao, s_nao) with
\* s_nao the identity
NaoRestore ==
    /\ nao_pc = "restore"
    /\ nao_pc' = "returned"
    /\ uses' = uses \cup {[step |-> "restore", ovlp |-> "eye"]}
    /\ UNCHANGED <<nao_args, mol, cvr>>
    /\ UNCHANGED confVars
    /\ UNCHANGED preVars

NextNao == NaoDensity \/ NaoPrenao \/ NaoSub \/ NaoRestore

SpecNao == InitNao /\ [][NextNao]_vars

\* ------------------------------------------------------------------------
\* Properties of set_atom_conf
\* ------------------------------------------------------------------------

\* a table string of the exact form '<digit>s<digit>p<digit>d<digit>f'
WellFormed(str) ==
    /\ Len(str) = 8
    /\ \A i \in 1..4 : IsDigit(str[2 * i - 1]) /\ str[2 * i] = ShellLetters[i]

WellFormedRow(row) == WellFormed(row[1]) /\ WellFormed(row[2])

Called == last.element # -1

\* the row of the last call's element as the call left it
After == Row(last.element)

LastIsStr(text) == Called /\ last.description = StrDesc(text)

\* a shell-count literal: one or more '<digit><s|p|d|f>' groups
IsShellLiteral(text) ==
    /\ Len(text) > 0
    /\ Len(text) % 2 = 0
    /\ \A i \in 1..(Len(text) \div 2) :
          /\ IsDigit(text[2 * i - 1])
          /\ \E k \in 1..4 : text[2 * i] = ShellLetters[k]

Documented(text) ==
    \/ IsShellLiteral(text)
    \/ text \in {T_double_p, T_double_d, T_double_f, T_polarize}

\* the channel (1..4) a 'double x' keyword names, 0 for any other text
DoubledChannel(text) ==
    IF text = T_double_p THEN 2
    ELSE IF text = T_double_d THEN 3
    ELSE IF text = T_double_f THEN 4
    ELSE 0

\* C3 as stated: 'double x' raises the x count of the core+valence string by
\* exactly one and changes nothing else.
C3_DoubleAddsOneShell ==
    (Called /\ last.description.isstr /\ DoubledChannel(last.description.v) > 0
        /\ WellFormedRow(last.before))
    => LET x  == DoubledChannel(last.description.v)
           cv == ShellCounts(last.before[2]).val
       IN  /\ ~last.raised
           /\ After[1] = last.before[1]
           /\ After[2] = FormatConf([cv EXCEPT ![x] = cv[x] + 1])

\* C3 amended: on a well-formed row 'double x' returns, leaves the core
\* string alone and sets the x count of the core+valence string to the core
\* count of x plus two, the other three counts unchanged; on the default
\* table Fe with 'double d' becomes 3s2p0d0f / 4s2p2d0f.
C3_DoubleSetsCorePlusTwo ==
    /\ (Called /\ last.description.isstr
          /\ DoubledChannel(last.description.v) > 0
          /\ WellFormedRow(last.before))
       => LET x  == DoubledChannel(last.description.v)
              co == ShellCounts(last.before[1]).val
              cv == ShellCounts(last.before[2]).val
          IN  /\ ~last.raised
              /\ After[1] = last.before[1]
              /\ After[2] = FormatConf([cv EXCEPT ![x] = co[x] + 2])
    /\ (LastIsStr(T_double_d) /\ last.element = 26
          /\ last.before = AOSHELL_DEFAULT[26])
       => After = <<Conf(3,2,0,0), Conf(4,2,2,0)>>

\* Fe on the default table after 'double d'
C3_Witness ==
    /\ LastIsStr(T_double_d)
    /\ last.element = 26
    /\ last.before = <<Conf(3,2,0,0), Conf(4,2,1,0)>>
    /\ ~last.raised
    /\ After = <<Conf(3,2,0,0), Conf(4,2,2,0)>>

\* the first channel (1..4) whose count is zero, 0 when there is none
FirstZero(counts) ==
    IF \E i \in 1..4 : counts[i] = 0
    THEN CHOOSE i \in 1..4 : counts[i] = 0 /\ \A j \in 1..(i - 1) : counts[j] # 0
    ELSE 0

PolarizeCase ==
    /\ LastIsStr(T_polarize)
    /\ WellFormedRow(last.before)
    /\ FirstZero(ShellCounts(last.before[2]).val) > 0

\* C4 as stated: 'polarize' takes the first zero count of the current
\* core+valence string from 0 to 1 and changes nothing else.
C4_PolarizeZeroToOne ==
    PolarizeCase
    => LET cv == ShellCounts(last.before[2]).val
           x  == FirstZero(cv)
       IN  /\ ~last.raised
           /\ After[1] = last.before[1]
           /\ After[2] = FormatConf([cv EXCEPT ![x] = 1])

\* C4 amended: 'polarize' sets the first zero count of the current
\* core+valence string to the core count of that channel plus one (so to 1
\* when that core count is 0) and changes nothing else.
C4_PolarizeCorePlusOne ==
    PolarizeCase
    => LET co == ShellCounts(last.before[1]).val
           cv == ShellCounts(last.before[2]).val
           x  == FirstZero(cv)
       IN  /\ ~last.raised
           /\ After[1] = last.before[1]
           /\ After[2] = FormatConf([cv EXCEPT ![x] = co[x] + 1])

\* Fe after 'double d' and 'double p' is 4s4p2d0f and becomes 4s4p2d1f
C4_Witness ==
    /\ LastIsStr(T_polarize)
    /\ last.element = 26
    /\ last.before = <<Conf(3,2,0,0), Conf(4,4,2,0)>>
    /\ ~last.raised
    /\ After = <<Conf(3,2,0,0), Conf(4,4,2,1)>>

\* C5: a description string of none of the documented forms makes
\* set_atom_conf raise instead of completing and writing the row.
C5_MalformedDescriptionRaises ==
    (Called /\ last.description.isstr /\ ~Documented(last.description.v)
        /\ WellFormedRow(last.before))
    => last.raised

\* C9: after any sequence of set_atom_conf calls every string of the table
\* has the exact form '<digit>s<digit>p<digit>d<digit>f'.
C9_TableStaysParseable ==
    \A z \in Charges : WellFormedRow(Row(z))


\* ------------------------------------------------------------------------
\* Properties of _core_val_ryd_list
\* ------------------------------------------------------------------------

\* contracted functions of the shells before shell ib (1-based) on the same
\* atom with the same angular momentum
RECURSIVE RunningCount(_, _, _)
RunningCount(m, ib, jb) ==
    IF jb >= ib THEN 0
    ELSE (IF m.bas[jb].atom = m.bas[ib].atom /\ m.bas[jb].ang = m.bas[ib].ang
          THEN m.bas[jb].nctr ELSE 0) + RunningCount(m, ib, jb + 1)

ListSet(lst) == {lst[i] : i \in 1..Len(lst)}

StrictlyIncreasing(lst) == \A i \in 1..(Len(lst) - 1) : lst[i] < lst[i + 1]

Returned == cvr.state = "returned"

\* C1: the three lists returned by _core_val_ryd_list are each strictly
\* increasing and together hold every index 0..n_ao-1 exactly once.
C1_ListsPartitionAllIndices ==
    Returned
    => /\ StrictlyIncreasing(cvr.core_lst)
       /\ StrictlyIncreasing(cvr.val_lst)
       /\ StrictlyIncreasing(cvr.rydbg_lst)
       /\ ListSet(cvr.core_lst) \cup ListSet(cvr.val_lst)
              \cup ListSet(cvr.rydbg_lst) = 0..(NumAO(mol) - 1)
       /\ Len(cvr.core_lst) + Len(cvr.val_lst) + Len(cvr.rydbg_lst) = NumAO(mol)

\* a returned call on two atoms with none of the three lists empty
C1_Witness ==
    /\ Returned
    /\ Len(mol.atoms) = 2
    /\ cvr.core_lst # <<>>
    /\ cvr.val_lst # <<>>
    /\ cvr.rydbg_lst # <<>>

\* the label C2 gives contraction n of shell ib (1-based), run being the
\* running count the label is computed with
ClaimedLabel(m, table, ib, n, run) ==
    LET l    == m.bas[ib].ang
        at   == m.atoms[m.bas[ib].atom + 1]
        core == ShellCounts(table[at.nuc][1]).val
        cv   == ShellCounts(table[at.nuc][2]).val
    IN  IF l > 3 THEN "rydbg"
        ELSE IF at.ecpcore[l + 1] + run + n < core[l + 1] THEN "core"
        ELSE IF at.ecpcore[l + 1] + run + n < cv[l + 1] THEN "val"
        ELSE "rydbg"

ListOf(label) ==
    IF label = "core" THEN cvr.core_lst
    ELSE IF label = "val" THEN cvr.val_lst
    ELSE cvr.rydbg_lst

\* C2: contraction n of a shell with angular momentum l is Rydberg if l > 3,
\* else Core if ecp_core[l] + running_count + n < core_shell_count[l], else
\* Valence if that sum < core_plus_valence_shell_count[l], else Rydberg, and
\* all its degen components are in the list of that label.
C2_LabelOfEveryContraction ==
    Returned
    => \A ib \in 1..Len(mol.bas) :
         LET deg == Degen(mol.cart, mol.bas[ib].ang)
             run == RunningCount(mol, ib, 1)
         IN  \A n \in 0..(mol.bas[ib].nctr - 1), c \in 0..(deg - 1) :
                 (AoLoc(mol, ib - 1) + n * deg + c)
                     \in ListSet(ListOf(ClaimedLabel(mol, Table, ib, n, run)))

\* a returned call where the running count of an earlier shell decides the
\* label of a contraction on an atom with an ECP core
C2_Witness ==
    /\ Returned
    /\ \E ib \in 1..Len(mol.bas) :
          /\ RunningCount(mol, ib, 1) > 0
          /\ mol.atoms[mol.bas[ib].atom + 1].ecpcore[mol.bas[ib].ang + 1] > 0
          /\ ClaimedLabel(mol, Table, ib, 0, RunningCount(mol, ib, 1)) = "val"
          /\ ClaimedLabel(mol, Table, ib, 0, 0) = "core"


\* ------------------------------------------------------------------------
\* Properties of _prenao_sub
\* ------------------------------------------------------------------------

\* atom ia has a shell of angular momentum l
HasAng(m, ia, l) == \E ib \in AtomShells(m, ia) : m.bas[ib].ang = l

\* the basis functions of component k of the (ia, l) block
ComponentIndices(m, ia, l, k) ==
    {AoLoc(m, ib - 1) + n * Degen(m.cart, l) + k :
        ib \in {jb \in AtomShells(m, ia) : m.bas[jb].ang = l},
        n \in 0..(MaxShells * MaxNctr)}
    \cap UNION {AoLoc(m, ib - 1)..(AoLoc(m, ib) - 1) :
                    ib \in {jb \in AtomShells(m, ia) : m.bas[jb].ang = l}}

\* C7: in the output of _prenao_sub the occupations of every component of
\* every (atom, l) block are non-increasing with the basis-function index,
\* and every written column of cao is the eigenvector of the eigenvalue
\* stored in occ for that column.
C7_OccupationsNonIncreasing ==
    pre_pc = "returned"
    => /\ \A ia \in 0..(Len(mol.atoms) - 1), l \in 0..2 :
            HasAng(mol, ia, l)
            => \A k \in 0..(Degen(mol.cart, l) - 1) :
                   \A x, y \in ComponentIndices(mol, ia, l, k) :
                       x < y => occ[x] >= occ[y]
       /\ \A w \in DOMAIN cao : cao[w].eig = occ[w[2]]

\* a returned call with a block of two radial functions of different
\* occupation, the higher one first
C7_Witness ==
    /\ pre_pc = "returned"
    /\ \E x, y \in DOMAIN occ :
          /\ x < y
          /\ occ[x] > occ[y]
          /\ <<x, y>> \in DOMAIN cao

\* atom ia lacks some angular momentum below its highest
HasGap(m) ==
    \E ia \in 0..(Len(m.atoms) - 1) :
        \E l \in 0..LMax(m, ia) : ~HasAng(m, ia, l)

\* C8: an angular momentum an atom has no shell of is skipped without an
\* error, and the blocks after it are processed.
C8_MissingAngularMomentumSkipped ==
    HasGap(mol) => pre_pc # "raised"


\* ------------------------------------------------------------------------
\* Properties of nao
\* ------------------------------------------------------------------------

\* C10: when nao is called with an explicit s, every step (p = s.D.s, the
\* pre-NAO decomposition, the Gram matrices, deflations and the final
\* orthogonality check of _nao_sub) computes with that s.
C10_CallerOverlapInEveryStep ==
    nao_args.s # "None"
    => \A u \in uses : u.step # "restore" => u.ovlp = nao_args.s

=============================================================================
